---- MODULE Spec2Model ----
(***************************************************************************)
(* Model of src/src/models/hybrid_trainer.py: the two latent-factor        *)
(* training loops (train_collaborative_filtering and the collaborative     *)
(* component of train_hybrid_recommendation_model) and the offline         *)
(* evaluators (evaluate_collaborative_filtering,                           *)
(* evaluate_post_collaborative_filtering), and the ID mappings the two     *)
(* trainers build from the labels of the interaction frame.                *)
(*                                                                         *)
(* Tensors are modelled by what the control flow depends on: their shape,  *)
(* the device they live on and whether they are autograd leaves.  The      *)
(* values of the factors after an optimizer step are not computed: the     *)
(* predicted ratings of an epoch are any matrix over Predictions and the   *)
(* regularization term any level in 0..MaxReg.  Loss values are exact      *)
(* rationals n/d; a division by zero gives NaN as torch does.              *)
(*                                                                         *)
(* numpy's global random generator is a variable: np.random.choice reads   *)
(* and advances it, np.random.seed sets it.  A draw is a function of the   *)
(* generator state, the population and the number of items drawn.          *)
(***************************************************************************)
EXTENDS FiniteSets, Integers, Sequences, TLC

\* ------------------------------------------------------------------ bounds
MaxUsers == 1

\* numbers of items of the training matrices
TrainItems == {1, 2}

\* numbers of users of the matrices given to the evaluators
EvalUsers == {1, 2}
MaxEvalItems == 6
MaxPostItems == 3
\* most labels on an axis of the frame the ID mappings are built from
MaxIds == 2

\* interaction strengths and predicted ratings of the training model
Ratings == {0, 1}
Predictions == {0, 1}
\* levels of the L2 term 0.01 * (||U|| + ||V||) (0.001 * (sum U^2 + sum V^2))
MaxReg == 4
RegLevels == 0..MaxReg

\* ------------------------------------------------------- program constants
CF_N_FACTORS == 32
CF_EPOCHS == 50
CF_PATIENCE == 5
HYBRID_N_FACTORS == 128
HYBRID_EPOCHS == 25
HYBRID_PATIENCE == 3
MIN_INTERACTIONS == 5
POST_EVAL_USERS == 10
POST_SEED == 42

VARIABLES
  fn,               \* which trainer runs: "cf" or "hybrid"
  USE_CUDA,         \* module global: torch.cuda.is_available()
  has_implicit,     \* module global: the implicit package imported
  user_item,        \* the interaction matrix (user_post_df / user_item_df .values)
  tensor_device,    \* device of user_post_tensor / user_item_tensor
  user_factors,     \* [shape, device, is_leaf]
  item_factors,     \* post_factors / item_factors: [shape, device, is_leaf]
  t_pc,             \* position in the trainer
  epoch,            \* number of loop bodies executed
  divisor,          \* what the data loss of the last epoch was divided by
  best_loss,
  patience_counter,
  improved,         \* the last epoch took the branch loss.item() < best_loss
  early_stopped,    \* the loop left through break
  last_improved,    \* history: the last epoch whose loss was below the best before it
  min_seen,         \* history: the least loss of the epochs executed
  place_failed,     \* history: an accelerator transfer raised
  t_result,         \* what the trainer returned
  data_fault,       \* argument: what is wrong with data, "none" if nothing
  t_exc,            \* the exception that left the trainer
  opt_steps         \* number of optimizer.step() calls made on the factors

tvars == <<fn, USE_CUDA, has_implicit, user_item, tensor_device, user_factors,
           item_factors, t_pc, epoch, divisor, best_loss, patience_counter,
           improved, early_stopped, last_improved, min_seen, place_failed, t_result,
           data_fault, t_exc, opt_steps>>

VARIABLES
  e_fn,             \* which evaluator runs: "cf" or "post"
  cf_model,         \* argument: the model
  user_item_matrix, \* argument: user_item_df.values / user_post_matrix
  frame_ok,         \* argument: the matrix argument is a data frame
  int_dtype,        \* argument: the cells of the matrix are integers
  test_size,        \* argument: the test fraction [n, d] (0.2 in the post evaluator)
  k,                \* argument: the cutoff
  e_pc,             \* position in the evaluator
  u,                \* index of the user loops
  test_mask,        \* per user, the set of held-out items
  train_matrix,
  predicted_shape,  \* shape of predicted_ratings / predictions
  rmse,
  precision_at_k,   \* precision_at_k / precision_scores
  recall_at_k,      \* recall_at_k / recall_scores
  e_failed,         \* history: the except branch ran
  metrics,          \* what the evaluator returned
  random_state,     \* module global: the state of numpy's global generator
  dot_layout,       \* the layout np.dot read item_factors in
  top_k_items,      \* top_k_items / top_k_indices of the user ranked last
  calls,            \* number of the call of the evaluator, 1 or 2
  first_mask,       \* history: test_mask at the end of the first call
  train_buf,        \* the array the name train_matrix is bound to
  pred_buf,         \* the array the name predicted_ratings / predictions is bound to
  written           \* history: the arrays the call has assigned cells of

evars == <<e_fn, cf_model, user_item_matrix, frame_ok, int_dtype, test_size, k, e_pc, u,
           test_mask, train_matrix, predicted_shape, rmse, precision_at_k,
           recall_at_k, e_failed, metrics, random_state, dot_layout, top_k_items,
           calls, first_mask, train_buf, pred_buf, written>>

VARIABLES
  m_fn,             \* which trainer builds the mappings: "cf" or "hybrid"
  user_ids,         \* user_post_df.index.tolist() / user_item_df.index.tolist()
  item_ids,         \* post_ids / item_ids: the column labels
  user_id_map,
  item_id_map,      \* post_id_map / item_id_map
  reverse_user_map,
  reverse_item_map, \* reverse_post_map / reverse_item_map
  m_pc              \* "start", "built" or "raised"

mvars == <<m_fn, user_ids, item_ids, user_id_map, item_id_map, reverse_user_map,
           reverse_item_map, m_pc>>

VARIABLES
  b_fn,             \* which business evaluator runs: "business" or "company"
  similarity_matrix,\* argument: the array of the caller (business_similarity)
  sim_before,       \* history: the cells of similarity_matrix at the call
  categories,       \* argument: business_df['Category'].values
  b_frame_ok,       \* argument: the frame has a Category column
  b_k,              \* argument: the cutoff
  b_pc,             \* position in the business evaluator
  b_i,              \* index of the loops over the businesses
  b_top,            \* top_k_indices of the business ranked last
  b_precision,      \* precision_at_k / precision_scores
  b_recall,         \* recall_at_k / recall_scores
  recommended_categories,
  b_failed,         \* history: the except branch ran
  b_metrics         \* what the business evaluator returned

bvars == <<b_fn, similarity_matrix, sim_before, categories, b_frame_ok, b_k, b_pc, b_i,
           b_top, b_precision, b_recall, recommended_categories, b_failed, b_metrics>>

VARIABLES
  p_pc,             \* position in main()
  files_ok,         \* environment: the processed files can be read
  file_columns,     \* environment: the columns of the business features file
  p_cuda,           \* module global USE_CUDA of the run
  data_source,      \* what load_data returned: "files" or "dummy"
  business_columns, \* columns of data['business_features']
  economic_columns, \* columns of data['economic_data']
  stages_done,      \* history: the stages of main() that ran to completion
  p_exc,            \* the exception that left main()
  p_result          \* what main() returned

pvars == <<p_pc, files_ok, file_columns, p_cuda, data_source, business_columns,
           economic_columns, stages_done, p_exc, p_result>>

vars == <<tvars, evars, mvars, bvars, pvars>>

\* ------------------------------------------------------------ loss values
Inf == [k |-> "inf", n |-> 0, d |-> 1]
NaN == [k |-> "nan", n |-> 0, d |-> 0]
Num(n, d) == [k |-> "num", n |-> n, d |-> d]

\* torch division of two 0-dim float tensors: x/0 is nan (0/0) and never raises
Div(n, d) == IF d = 0 THEN NaN ELSE Num(n, d)

\* a < b on floats: false whenever either side is NaN
LessThan(a, b) ==
  IF a.k = "nan" \/ b.k = "nan" THEN FALSE
  ELSE IF a.k = "inf" THEN FALSE
  ELSE IF b.k = "inf" THEN TRUE
  ELSE a.n * b.d < b.n * a.d

\* loss += l2_reg, with l2_reg an integer level r
AddReg(l, r) == IF l.k = "num" THEN Num(l.n + r * l.d, l.d) ELSE l

\* ------------------------------------------------------------ matrices
Matrices(nu, ni, cells) == [1..nu -> [1..ni -> cells]]

NRows(M) == Len(M)
NCols(M) == Len(M[1])

RECURSIVE SumTo(_, _)
SumTo(f, n) == IF n = 0 THEN 0 ELSE f[n] + SumTo(f, n - 1)

\* torch.sum over a matrix given cell by cell
SumCells(M, Cell(_, _)) ==
  SumTo([r \in 1..NRows(M) |-> SumTo([c \in 1..NCols(M) |-> Cell(r, c)], NCols(M))],
        NRows(M))

Mask(M, r, c) == IF M[r][c] > 0 THEN 1 ELSE 0
SumMask(M) == LET cell(r, c) == Mask(M, r, c) IN SumCells(M, cell)
SqErr(M, P, r, c) == (M[r][c] - P[r][c]) * (M[r][c] - P[r][c])
MaskedSqErr(M, P) == LET cell(r, c) == Mask(M, r, c) * SqErr(M, P, r, c) IN SumCells(M, cell)
AllSqErr(M, P) == LET cell(r, c) == SqErr(M, P, r, c) IN SumCells(M, cell)

\* train_collaborative_filtering, lines 211-217: [n, d] of the data loss
DataLossCF(M, P) ==
  IF SumMask(M) > 0
  THEN [n |-> MaskedSqErr(M, P), d |-> SumMask(M)]
  ELSE [n |-> AllSqErr(M, P), d |-> NRows(M) * NCols(M)]

\* train_hybrid_recommendation_model, lines 913-917: no branch on sum(mask)
DataLossHybrid(M, P) == [n |-> MaskedSqErr(M, P), d |-> SumMask(M)]

\* ------------------------------------------------------------ tensors
Tensor(shape, device, leaf) == [shape |-> shape, device |-> device, is_leaf |-> leaf]

\* Lines 183-197.  fail = 0: no transfer raises; 1: user_post_tensor.cuda()
\* raises; 2 (3): the allocation of the user (post) factors on the
\* accelerator raises.  The except branch re-creates the two factors on the
\* host and leaves user_post_tensor where the try block put it.
PlaceCF(cuda, fail, nu, ni) ==
  LET U(dev) == Tensor(<<nu, CF_N_FACTORS>>, dev, TRUE)
      V(dev) == Tensor(<<CF_N_FACTORS, ni>>, dev, TRUE)
  IN IF ~cuda THEN [tensor |-> "cpu", uf |-> U("cpu"), pf |-> V("cpu")]
     ELSE IF fail = 0 THEN [tensor |-> "cuda", uf |-> U("cuda"), pf |-> V("cuda")]
     ELSE IF fail = 1 THEN [tensor |-> "cpu", uf |-> U("cpu"), pf |-> V("cpu")]
     ELSE [tensor |-> "cuda", uf |-> U("cpu"), pf |-> V("cpu")]

\* Lines 881-897.  The factors are leaves after requires_grad = True; .cuda()
\* of a leaf that requires grad is a non-leaf copy, and so is
\* randn(..., requires_grad=True) / sqrt(n_factors) of the except branch.
PlaceHybrid(cuda, fail, nu, ni) ==
  LET U(dev, leaf) == Tensor(<<nu, HYBRID_N_FACTORS>>, dev, leaf)
      V(dev, leaf) == Tensor(<<HYBRID_N_FACTORS, ni>>, dev, leaf)
  IN IF ~cuda THEN [tensor |-> "cpu", uf |-> U("cpu", TRUE), pf |-> V("cpu", TRUE)]
     ELSE IF fail = 0
       THEN [tensor |-> "cuda", uf |-> U("cuda", FALSE), pf |-> V("cuda", FALSE)]
     ELSE IF fail = 1
       THEN [tensor |-> "cpu", uf |-> U("cpu", FALSE), pf |-> V("cpu", FALSE)]
     ELSE [tensor |-> "cuda", uf |-> U("cpu", FALSE), pf |-> V("cpu", FALSE)]

\* torch.optim.Adam([user_factors, item_factors]) raises ValueError
\* ("can't optimize a non-leaf Tensor") unless every parameter is a leaf
OptimizerOK(uf, pf) == uf.is_leaf /\ pf.is_leaf

\* torch.matmul(U, V) and user_item_tensor - predicted_ratings raise
\* RuntimeError unless their operands are on one device
SameDevice(tdev, uf, pf) == uf.device = pf.device /\ tdev = uf.device

\* ------------------------------------------------------------ early stopping
\* EarlyStopping with the counter left as it is by an improving epoch
EarlyStoppingNoReset(l, best, counter, patience) ==
  IF LessThan(l, best)
  THEN [best |-> l, counter |-> counter, brk |-> FALSE, improved |-> TRUE]
  ELSE [best |-> best, counter |-> counter + 1,
        brk |-> (counter + 1 >= patience), improved |-> FALSE]

\* EarlyStopping with best_loss following the loss of every epoch
EarlyStoppingLastLoss(l, best, counter, patience) ==
  IF LessThan(l, best)
  THEN [best |-> l, counter |-> 0, brk |-> FALSE, improved |-> TRUE]
  ELSE [best |-> l, counter |-> counter + 1,
        brk |-> (counter + 1 >= patience), improved |-> FALSE]

\* EarlyStopping that breaks one epoch late
EarlyStoppingLateBreak(l, best, counter, patience) ==
  IF LessThan(l, best)
  THEN [best |-> l, counter |-> 0, brk |-> FALSE, improved |-> TRUE]
  ELSE [best |-> best, counter |-> counter + 1,
        brk |-> (counter + 1 > patience), improved |-> FALSE]

\* Lines 232-239 (932-939): the state of the loop after an epoch of loss l
EarlyStopping(l, best, counter, patience) ==
  IF LessThan(l, best)
  THEN [best |-> l, counter |-> 0, brk |-> FALSE, improved |-> TRUE]
  ELSE [best |-> best, counter |-> counter + 1,
        brk |-> (counter + 1 >= patience), improved |-> FALSE]

\* the least of the losses seen so far (history; NaN is no value)
MinLoss(a, l) == IF LessThan(l, a) THEN l ELSE a

\* Lines 242-246
CFModel(uf, pf, best) ==
  [user_factors |-> [shape |-> uf.shape],
   post_factors |-> [shape |-> pf.shape],
   final_loss |-> best]

\* Lines 1133-1136: hybrid_model['collaborative_filtering']
HybridCFModel(uf, pf) ==
  [user_factors |-> [shape |-> uf.shape],
   item_factors |-> [shape |-> pf.shape]]

\* Lines 864-868: implicit's AlternatingLeastSquares.fit(user_items) leaves
\* user_factors of shape (users, factors) and item_factors of shape
\* (items, factors)
ALSFactors(nu, ni) ==
  [uf |-> Tensor(<<nu, HYBRID_N_FACTORS>>, "cpu", FALSE),
   pf |-> Tensor(<<ni, HYBRID_N_FACTORS>>, "cpu", FALSE)]

NoTensor == Tensor(<<0, 0>>, "none", FALSE)
NoResult == [kind |-> "none"]
NoException == [type |-> "none", logged |-> FALSE]

\* What can be wrong with the argument of a trainer: the key of the
\* interaction matrix is missing from data, the value under it is no data
\* frame, or the frame holds cells that are no numbers.
DataFaults == {"none", "missing_key", "not_a_frame", "non_numeric"}

\* Lines 161-177 (827-877): the exception the first statements raise on such
\* an argument: data['user_post_matrix'] raises KeyError, .index (.values)
\* of what is no frame AttributeError, and torch.tensor (csr_matrix) of
\* cells that are no numbers TypeError.
SetupException(fault) ==
  IF fault = "missing_key" THEN "KeyError"
  ELSE IF fault = "not_a_frame" THEN "AttributeError"
  ELSE IF fault = "non_numeric" THEN "TypeError"
  ELSE "none"

\* OnTrainerException with the exception logged and not raised again
OnTrainerExceptionSwallowed(type) ==
  [pc |-> "returned", exc |-> [type |-> type, logged |-> TRUE], result |-> NoResult]

\* Lines 268-270 (1200-1202): except Exception: logger.error(...); raise
OnTrainerException(type) ==
  [pc |-> "raised", exc |-> [type |-> type, logged |-> TRUE], result |-> NoResult]

\* LoopExit of a loop that ends by break only
LoopExitOnBreak(brk, n, budget) == brk

\* Lines 206 and 239 (908 and 939): the loop is left by break or when
\* range(budget) is exhausted after n passes
LoopExit(brk, n, budget) == brk \/ n = budget

\* ReturnedFactors of a trainer that restores the factors of the best epoch
ReturnedBestFactors(steps, best_epoch) == best_epoch

\* Lines 243-244 (942-943): the factors put in the model are the tensors the
\* optimizer updated, as they are after `steps` updates
ReturnedFactors(steps, best_epoch) == steps

\* ------------------------------------------------------------ evaluator state
NoShape == <<0, 0>>
NoMetrics == [none |-> 0]
NoValue == [k |-> "none", n |-> 0, d |-> 1]

\* the evaluator variables while a trainer runs
EIdle ==
  /\ e_fn = "none"
  /\ cf_model = [kind |-> "none"]
  /\ user_item_matrix = <<>>
  /\ frame_ok = TRUE
  /\ int_dtype = FALSE
  /\ test_size = [n |-> 0, d |-> 1]
  /\ k = 0
  /\ e_pc = "idle"
  /\ u = 0
  /\ test_mask = <<>>
  /\ train_matrix = <<>>
  /\ predicted_shape = NoShape
  /\ rmse = NoValue
  /\ precision_at_k = <<>>
  /\ recall_at_k = <<>>
  /\ e_failed = FALSE
  /\ metrics = NoMetrics
  /\ random_state = 0
  /\ dot_layout = "none"
  /\ top_k_items = {}
  /\ calls = 0
  /\ first_mask = <<>>
  /\ train_buf = "none"
  /\ pred_buf = "none"
  /\ written = {}

\* the mapping variables while a trainer loop or an evaluator runs
MIdle ==
  /\ m_fn = "none"
  /\ user_ids = <<>>
  /\ item_ids = <<>>
  /\ user_id_map = <<>>
  /\ item_id_map = <<>>
  /\ reverse_user_map = <<>>
  /\ reverse_item_map = <<>>
  /\ m_pc = "idle"

\* the variables of the business evaluators while another function runs
BIdle ==
  /\ b_fn = "none"
  /\ similarity_matrix = <<>>
  /\ sim_before = <<>>
  /\ categories = <<>>
  /\ b_frame_ok = TRUE
  /\ b_k = 0
  /\ b_pc = "idle"
  /\ b_i = 0
  /\ b_top = {}
  /\ b_precision = <<>>
  /\ b_recall = <<>>
  /\ recommended_categories = {}
  /\ b_failed = FALSE
  /\ b_metrics = NoMetrics

\* the variables of main() while a function is called on its own
PIdle ==
  /\ p_pc = "idle"
  /\ files_ok = TRUE
  /\ file_columns = {}
  /\ p_cuda = FALSE
  /\ data_source = "none"
  /\ business_columns = {}
  /\ economic_columns = {}
  /\ stages_done = <<>>
  /\ p_exc = "none"
  /\ p_result = NoResult

TrainMatrices ==
  UNION {Matrices(nu, ni, Ratings) : <<nu, ni>> \in (1..MaxUsers) \X TrainItems}

TInit ==
  /\ EIdle
  /\ MIdle
  /\ BIdle
  /\ PIdle
  /\ fn \in {"cf", "hybrid"}
  /\ USE_CUDA \in BOOLEAN
  /\ has_implicit \in (IF fn = "hybrid" THEN BOOLEAN ELSE {FALSE})
  /\ user_item \in TrainMatrices
  /\ tensor_device = "none"
  /\ user_factors = NoTensor
  /\ item_factors = NoTensor
  /\ t_pc = "start"
  /\ epoch = 0
  /\ divisor = -1
  /\ best_loss = Inf
  /\ patience_counter = 0
  /\ improved = FALSE
  /\ early_stopped = FALSE
  /\ last_improved = 0
  /\ min_seen = Inf
  /\ place_failed = FALSE
  /\ t_result = NoResult
  /\ data_fault \in DataFaults
  /\ t_exc = NoException
  /\ opt_steps = 0

\* the trainer is left by an exception of the given type
TrainerRaises(type) ==
  LET h == OnTrainerException(type)
  IN /\ t_pc' = h.pc
     /\ t_exc' = h.exc
     /\ t_result' = h.result

\* train_collaborative_filtering, lines 161-204: tensors, factors, optimizer
CFSetup ==
  /\ fn = "cf" /\ t_pc = "start"
  /\ IF data_fault # "none"
     THEN /\ TrainerRaises(SetupException(data_fault))
          /\ UNCHANGED <<tensor_device, user_factors, item_factors, place_failed>>
     ELSE \E fail \in (IF USE_CUDA THEN 0..3 ELSE {0}) :
            LET p == PlaceCF(USE_CUDA, fail, NRows(user_item), NCols(user_item))
            IN /\ tensor_device' = p.tensor
               /\ user_factors' = p.uf
               /\ item_factors' = p.pf
               /\ place_failed' = (fail # 0)
               /\ IF OptimizerOK(p.uf, p.pf)
                  THEN t_pc' = "loop" /\ UNCHANGED <<t_exc, t_result>>
                  ELSE TrainerRaises("ValueError")
  /\ UNCHANGED <<evars, mvars, bvars, pvars>>
  /\ UNCHANGED <<fn, USE_CUDA, has_implicit, user_item, epoch, divisor, best_loss,
                 patience_counter, improved, early_stopped, last_improved,
                 min_seen, data_fault, opt_steps>>

\* The values loss.item() can take in an epoch: the data loss of some
\* predicted ratings plus some level of the L2 term
EpochLosses(DataLoss(_, _)) ==
  {AddReg(Div(dl.n, dl.d), r) :
     dl \in {DataLoss(user_item, P) :
               P \in Matrices(NRows(user_item), NCols(user_item), Predictions)},
     r \in RegLevels}

\* One pass of the loop body of either trainer
EpochBody(DataLoss(_, _), patience, budget) ==
  \E l \in EpochLosses(DataLoss) :
    LET s == EarlyStopping(l, best_loss, patience_counter, patience)
    IN /\ epoch' = epoch + 1
       /\ divisor' = l.d
       /\ best_loss' = s.best
       /\ patience_counter' = s.counter
       /\ improved' = s.improved
       /\ early_stopped' = s.brk
       /\ last_improved' = IF LessThan(l, min_seen) THEN epoch + 1 ELSE last_improved
       /\ min_seen' = MinLoss(min_seen, l)
       /\ opt_steps' = opt_steps + 1
       /\ t_pc' = IF LoopExit(s.brk, epoch + 1, budget) THEN "after_loop" ELSE "loop"
       /\ UNCHANGED <<t_exc, t_result>>

\* train_collaborative_filtering, lines 206-239
CFEpoch ==
  /\ fn = "cf" /\ t_pc = "loop" /\ epoch < CF_EPOCHS
  /\ IF SameDevice(tensor_device, user_factors, item_factors)
     THEN EpochBody(DataLossCF, CF_PATIENCE, CF_EPOCHS)
     ELSE /\ TrainerRaises("RuntimeError")
          /\ UNCHANGED <<epoch, divisor, best_loss, patience_counter, improved,
                         early_stopped, last_improved, min_seen, opt_steps>>
  /\ UNCHANGED <<evars, mvars, bvars, pvars>>
  /\ UNCHANGED <<fn, USE_CUDA, has_implicit, user_item, tensor_device,
                 user_factors, item_factors, place_failed, data_fault>>

\* train_collaborative_filtering, lines 242-266
CFReturn ==
  /\ fn = "cf" /\ t_pc = "after_loop"
  /\ t_result' = [kind |-> "cf",
                  model |-> CFModel(user_factors, item_factors, best_loss),
                  factors_after |-> ReturnedFactors(opt_steps, last_improved)]
  /\ t_pc' = "returned"
  /\ UNCHANGED <<evars, mvars, bvars, pvars>>
  /\ UNCHANGED <<fn, USE_CUDA, has_implicit, user_item, tensor_device,
                 user_factors, item_factors, epoch, divisor, best_loss,
                 patience_counter, improved, early_stopped, last_improved,
                 min_seen, place_failed, data_fault, t_exc, opt_steps>>

\* train_hybrid_recommendation_model, lines 835-868: the ALS-library path
HybridALS ==
  /\ fn = "hybrid" /\ t_pc = "start" /\ has_implicit
  /\ IF data_fault # "none"
     THEN /\ TrainerRaises(SetupException(data_fault))
          /\ UNCHANGED <<tensor_device, user_factors, item_factors>>
     ELSE /\ LET f == ALSFactors(NRows(user_item), NCols(user_item))
             IN /\ user_factors' = f.uf
                /\ item_factors' = f.pf
          /\ tensor_device' = "cpu"
          /\ t_pc' = "after_loop"
          /\ UNCHANGED <<t_exc, t_result>>
  /\ UNCHANGED <<evars, mvars, bvars, pvars>>
  /\ UNCHANGED <<fn, USE_CUDA, has_implicit, user_item, epoch, divisor, best_loss,
                 patience_counter, improved, early_stopped, last_improved,
                 min_seen, place_failed, data_fault, opt_steps>>

\* train_hybrid_recommendation_model, lines 871-906: the PyTorch path
HybridSetup ==
  /\ fn = "hybrid" /\ t_pc = "start" /\ ~has_implicit
  /\ IF data_fault # "none"
     THEN /\ TrainerRaises(SetupException(data_fault))
          /\ UNCHANGED <<tensor_device, user_factors, item_factors, place_failed>>
     ELSE \E fail \in (IF USE_CUDA THEN 0..3 ELSE {0}) :
            LET p == PlaceHybrid(USE_CUDA, fail, NRows(user_item), NCols(user_item))
            IN /\ tensor_device' = p.tensor
               /\ user_factors' = p.uf
               /\ item_factors' = p.pf
               /\ place_failed' = (fail # 0)
               /\ IF OptimizerOK(p.uf, p.pf)
                  THEN t_pc' = "loop" /\ UNCHANGED <<t_exc, t_result>>
                  ELSE TrainerRaises("ValueError")
  /\ UNCHANGED <<evars, mvars, bvars, pvars>>
  /\ UNCHANGED <<fn, USE_CUDA, has_implicit, user_item, epoch, divisor, best_loss,
                 patience_counter, improved, early_stopped, last_improved,
                 min_seen, data_fault, opt_steps>>

\* train_hybrid_recommendation_model, lines 908-939
HybridEpoch ==
  /\ fn = "hybrid" /\ t_pc = "loop" /\ epoch < HYBRID_EPOCHS
  /\ IF SameDevice(tensor_device, user_factors, item_factors)
     THEN EpochBody(DataLossHybrid, HYBRID_PATIENCE, HYBRID_EPOCHS)
     ELSE /\ TrainerRaises("RuntimeError")
          /\ UNCHANGED <<epoch, divisor, best_loss, patience_counter, improved,
                         early_stopped, last_improved, min_seen, opt_steps>>
  /\ UNCHANGED <<evars, mvars, bvars, pvars>>
  /\ UNCHANGED <<fn, USE_CUDA, has_implicit, user_item, tensor_device,
                 user_factors, item_factors, place_failed, data_fault>>

\* train_hybrid_recommendation_model, lines 942-943 and 1132-1198
HybridReturn ==
  /\ fn = "hybrid" /\ t_pc = "after_loop"
  /\ t_result' = [kind |-> "hybrid",
                  model |-> HybridCFModel(user_factors, item_factors),
                  factors_after |-> ReturnedFactors(opt_steps, last_improved)]
  /\ t_pc' = "returned"
  /\ UNCHANGED <<evars, mvars, bvars, pvars>>
  /\ UNCHANGED <<fn, USE_CUDA, has_implicit, user_item, tensor_device,
                 user_factors, item_factors, epoch, divisor, best_loss,
                 patience_counter, improved, early_stopped, last_improved,
                 min_seen, place_failed, data_fault, t_exc, opt_steps>>

TNext == CFSetup \/ CFEpoch \/ CFReturn \/ HybridALS \/ HybridSetup \/ HybridEpoch
           \/ HybridReturn

SpecTrain == TInit /\ [][TNext]_vars

\* The trainers are sequential programs: the interpreter executes the next
\* statement whenever there is one.  Termination is checked on the matrices
\* of one user: more users give more loss values, not another control flow.
TInitLive == TInit /\ NRows(user_item) = 1
SpecTrainLive == TInitLive /\ [][TNext]_vars /\ WF_vars(TNext)

\* ------------------------------------------------------------ evaluators
\* the trainer variables while an evaluator runs
TIdle ==
  /\ fn = "none"
  /\ USE_CUDA = FALSE
  /\ has_implicit = FALSE
  /\ user_item = <<>>
  /\ tensor_device = "none"
  /\ user_factors = NoTensor
  /\ item_factors = NoTensor
  /\ t_pc = "idle"
  /\ epoch = 0
  /\ divisor = -1
  /\ best_loss = Inf
  /\ patience_counter = 0
  /\ improved = FALSE
  /\ early_stopped = FALSE
  /\ last_improved = 0
  /\ min_seen = Inf
  /\ place_failed = FALSE
  /\ t_result = NoResult
  /\ data_fault = "none"
  /\ t_exc = NoException
  /\ opt_steps = 0

Max(a, b) == IF a >= b THEN a ELSE b
Min(a, b) == IF a <= b THEN a ELSE b

\* int(x) of the quotient a / b, b > 0: truncation toward zero
Trunc(a, b) == IF a >= 0 THEN a \div b ELSE -((-a) \div b)

\* Interacted with the cells >= 0 taken for interactions
InteractedNonNegative(M, r) == {c \in 1..NCols(M) : M[r][c] >= 0}

\* Line 641 (1401): np.where(row > 0)[0]
Interacted(M, r) == {c \in 1..NCols(M) : M[r][c] > 0}

\* NTest with the product rounded up
NTestCeil(ts, len) == Max(1, (ts.n * len + ts.d - 1) \div ts.d)

\* NTest with the product rounded to the nearest integer
NTestNearest(ts, len) == Max(1, (2 * ts.n * len + ts.d) \div (2 * ts.d))

\* Line 644: n_test = max(1, int(test_size * len(interacted_items)))
NTest(ts, len) == Max(1, Trunc(ts.n * len, ts.d))

\* Line 1406: np.argsort(user_pred)[-k:] is some n of the items, which ones
\* the predicted scores decide
Choices(items, n) == {S \in SUBSET items : Cardinality(S) = n}

\* states of numpy's global generator
RngStates == {0, 1, 2}
\* Line 1374: np.random.seed(seed) puts the generator in the state of the seed
Seed(seed) == seed % Cardinality(RngStates)

\* Line 645 (1375): the n items np.random.choice(items, n, replace=False)
\* draws with the generator in state s, a function of s, items and n; the
\* call raises ValueError when n exceeds the number of items
Sample(s, items, n) ==
  LET len == Cardinality(items)
      rank(c) == Cardinality({x \in items : x < c})
  IN IF len = 0 THEN {}
     ELSE {c \in items : ((rank(c) + len - (s % len)) % len) < n}

\* the state the generator is left in by a draw of n items
Advance(s, n) == (s + n) % Cardinality(RngStates)

\* Lines 1378-1379: user_idx = idx // n_posts, post_idx = idx % n_posts
CellOf(idx, n_posts) == <<(idx \div n_posts) + 1, (idx % n_posts) + 1>>

\* The arrays of the caller: the cells behind the matrix argument and the
\* two factor arrays of the model
CallerArrays == {"user_item_matrix", "user_factors", "item_factors"}

\* CopyOf with the name bound to the array itself
CopyOfAlias(array, name) == array

\* Line 649 (1367, 1368): array.copy() is a new array, here called by the
\* name it is bound to
CopyOf(array, name) == name

\* Lines 653-664 (1387): np.dot returns a new array; without a dict model
\* predicted_ratings is bound to the array of train_matrix
PredictedBuffer(model, train_array) ==
  IF model.kind = "dict" THEN "predicted_ratings" ELSE train_array

\* ZeroOut that clears the whole row of a user with held-out cells
ZeroOutRows(M, mask) ==
  [r \in 1..NRows(M) |-> [c \in 1..NCols(M) |-> IF mask[r] # {} THEN 0 ELSE M[r][c]]]

\* Lines 649-650: train_matrix = copy with the test cells set to 0
ZeroOut(M, mask) ==
  [r \in 1..NRows(M) |-> [c \in 1..NCols(M) |-> IF c \in mask[r] THEN 0 ELSE M[r][c]]]

\* Lines 653-664: the shape of predicted_ratings, <<>> when a step raises.
\* A model that is no dict is replaced by train_matrix.
PredictedShapeCF(model, M) ==
  IF model.kind # "dict" THEN <<NRows(M), NCols(M)>>
  ELSE IF ~({"user_factors", "item_factors"} \subseteq DOMAIN model.d) THEN <<>>
  ELSE LET uf == model.d["user_factors"].shape
           itf == model.d["item_factors"].shape
       IN IF itf[1] = uf[2] THEN <<uf[1], itf[2]>>
          ELSE IF itf[2] = uf[2] THEN <<uf[1], itf[1]>>
          ELSE <<>>

\* Lines 1385-1387
PredictedShapePost(model) ==
  IF model.kind # "dict" THEN <<>>
  ELSE IF ~({"user_factors", "post_factors"} \subseteq DOMAIN model.d) THEN <<>>
  ELSE LET uf == model.d["user_factors"].shape
           pf == model.d["post_factors"].shape
       IN IF uf[2] = pf[1] THEN <<uf[1], pf[2]>> ELSE <<>>

TestCells(mask) == {rc \in (DOMAIN mask) \X (UNION {mask[r] : r \in DOMAIN mask}) :
                      rc[2] \in mask[rc[1]]}

\* Line 669 (1392): the root of the mean squared error of the predictions
\* over the given cells; the predictions are off by 1 at `wrong` of the cells
\* and exact at the others, so the mean squared error is wrong / |cells|
RmseOver(cells, wrong) ==
  [k |-> "rmse", over |-> cells, sq |-> Num(wrong, Cardinality(cells))]
Zero == Num(0, 1)

\* Lines 658-661 (1387): the layout np.dot reads item_factors in.  The test
\* of line 658 compares two lengths only.
DotLayout(model) ==
  IF model.kind # "dict" THEN "none"
  ELSE IF model.d["item_factors"].shape[1] = model.d["user_factors"].shape[2]
       THEN "factors_by_items"
       ELSE "items_by_factors"

\* PrecisionCF with the cutoff for divisor
PrecisionOverK(hits, kk, n_top) == IF n_top > 0 THEN Num(hits, kk) ELSE Zero

\* Line 692
PrecisionCF(hits, kk, n_top) == IF n_top > 0 THEN Num(hits, Min(kk, n_top)) ELSE Zero

\* Line 1410
PrecisionPost(hits, kk) == IF kk > 0 THEN Num(hits, kk) ELSE Zero

\* Recall with the hits left undivided
RecallCount(hits, n_true) == IF n_true > 0 THEN Num(hits, 1) ELSE Zero

\* Line 693 (1411)
Recall(hits, n_true) == IF n_true > 0 THEN Num(hits, n_true) ELSE Zero

RAdd(a, b) == Num(a.n * b.d + b.n * a.d, a.d * b.d)
RECURSIVE RSum(_)
RSum(q) == IF q = <<>> THEN Zero ELSE RAdd(q[1], RSum(Tail(q)))

\* Lines 699-700 (1416-1417): np.mean(list) if list else 0
MeanOrZero(q) == IF q = <<>> THEN Zero ELSE Num(RSum(q).n, RSum(q).d * Len(q))

\* F1Score with the quotient taken by floor division
F1ScoreFloorDiv(p, r) ==
  IF RAdd(p, r).n > 0
  THEN Num((2 * p.n * r.n) \div (p.n * r.d + r.n * p.d), 1)
  ELSE Zero

\* Line 703 (1418)
F1Score(p, r) ==
  IF RAdd(p, r).n > 0
  THEN Num(2 * p.n * r.n, p.n * r.d + r.n * p.d)
  ELSE Zero

MetricKeys(kk) ==
  {"rmse", "precision@" \o ToString(kk), "recall@" \o ToString(kk), "f1@" \o ToString(kk)}

\* Lines 705-710 (1420-1425)
Metrics(kk, rm, p, r) ==
  [key \in MetricKeys(kk) |->
     IF key = "rmse" THEN rm
     ELSE IF key = "precision@" \o ToString(kk) THEN p
     ELSE IF key = "recall@" \o ToString(kk) THEN r
     ELSE F1Score(p, r)]

\* OnException with the f1 entry left out of the record
OnExceptionDropKey(kk) ==
  [key \in MetricKeys(kk) \ {"f1@" \o ToString(kk)} |-> Zero]

\* Lines 715-722 (1430-1432): the except branch returns the zero record
OnException(kk) == [key \in MetricKeys(kk) |-> Zero]

\* Line 688: np.argsort(-pred_ratings)[:k] after the train items were set to
\* -inf: min(k, n_items) items, the items outside train_items first
TopKItems(ni, kk, train_items) ==
  LET rest == (1..ni) \ train_items
  IN {T \in SUBSET (1..ni) :
        /\ Cardinality(T) = Min(kk, ni)
        /\ IF kk <= Cardinality(rest) THEN T \subseteq rest ELSE rest \subseteq T}

\* ----- arguments
\* a row with its first np items positive
EvalRow(ni, np) == [c \in 1..ni |-> IF c <= np THEN 1 ELSE 0]
RowCounts == {0} \cup (MIN_INTERACTIONS..MaxEvalItems)
EvalMatrices ==
  UNION {[1..nu -> {EvalRow(MaxEvalItems, np) : np \in RowCounts}] : nu \in EvalUsers}

TestSizes ==
  {[n |-> 0, d |-> 1], [n |-> 1, d |-> 5], [n |-> 3, d |-> 10], [n |-> 1, d |-> 2],
   [n |-> 1, d |-> 1], [n |-> 3, d |-> 2]}
Cutoffs == {1, 10}

\* what train_collaborative_filtering returns for the matrix M
TrainedCF(M) ==
  LET p == PlaceCF(FALSE, 0, NRows(M), NCols(M))
  IN [kind |-> "dict", d |-> CFModel(p.uf, p.pf, Zero), item_layout |-> "factors_by_items"]
\* hybrid_model['collaborative_filtering'] of the PyTorch path
TrainedHybrid(M) ==
  LET p == PlaceHybrid(FALSE, 0, NRows(M), NCols(M))
  IN [kind |-> "dict", d |-> HybridCFModel(p.uf, p.pf), item_layout |-> "factors_by_items"]
\* hybrid_model['collaborative_filtering'] of the ALS path
TrainedALS(M) ==
  LET f == ALSFactors(NRows(M), NCols(M))
  IN [kind |-> "dict", d |-> HybridCFModel(f.uf, f.pf), item_layout |-> "items_by_factors"]
\* factors of a matrix with one more user
OtherMatrixModel(M) ==
  LET p == PlaceHybrid(FALSE, 0, NRows(M) + 1, NCols(M))
  IN [kind |-> "dict", d |-> HybridCFModel(p.uf, p.pf), item_layout |-> "factors_by_items"]
\* user factors and item factors of two different factor counts
MixedModel(M) ==
  [kind |-> "dict",
   d |-> HybridCFModel(PlaceCF(FALSE, 0, NRows(M), NCols(M)).uf,
                       ALSFactors(NRows(M), NCols(M)).pf),
   item_layout |-> "items_by_factors"]
\* what train_collaborative_filtering returns for a matrix with one more user
OtherMatrixCF(M) ==
  LET p == PlaceCF(FALSE, 0, NRows(M) + 1, NCols(M))
  IN [kind |-> "dict", d |-> CFModel(p.uf, p.pf, Zero), item_layout |-> "factors_by_items"]
\* factors of as many dimensions as the matrix has items (a matrix of 128
\* items for the factors of train_hybrid_recommendation_model), in the layout
\* of the ALS path (lines 866-868) or of the PyTorch path (lines 942-943)
SquareModel(M, layout) ==
  [kind |-> "dict",
   d |-> [user_factors |-> [shape |-> <<NRows(M), NCols(M)>>],
          item_factors |-> [shape |-> <<NCols(M), NCols(M)>>]],
   item_layout |-> layout]
Models(M) ==
  {TrainedCF(M), TrainedHybrid(M), TrainedALS(M), OtherMatrixModel(M), MixedModel(M),
   OtherMatrixCF(M), SquareModel(M, "items_by_factors"),
   SquareModel(M, "factors_by_items"), [kind |-> "other"]}

\* the matrices given to evaluate_post_collaborative_filtering
PostMatrices == UNION {Matrices(nu, MaxPostItems, Ratings) : nu \in EvalUsers}
\* Line 1372: int(0.2 * n_users * n_posts)
POST_TEST_SIZE == [n |-> 1, d |-> 5]

EInit ==
  /\ TIdle
  /\ MIdle
  /\ BIdle
  /\ PIdle
  /\ e_fn \in {"cf", "post"}
  /\ user_item_matrix \in (IF e_fn = "cf" THEN EvalMatrices ELSE PostMatrices)
  /\ cf_model \in Models(user_item_matrix)
  /\ frame_ok \in BOOLEAN
  /\ int_dtype \in (IF e_fn = "cf" /\ cf_model.kind # "dict" THEN BOOLEAN ELSE {FALSE})
  /\ test_size \in (IF e_fn = "cf" THEN TestSizes ELSE {POST_TEST_SIZE})
  /\ k \in Cutoffs
  /\ e_pc = "start"
  /\ u = 0
  /\ test_mask = <<>>
  /\ train_matrix = <<>>
  /\ predicted_shape = NoShape
  /\ rmse = NoValue
  /\ precision_at_k = <<>>
  /\ recall_at_k = <<>>
  /\ e_failed = FALSE
  /\ metrics = NoMetrics
  /\ random_state \in RngStates
  /\ dot_layout = "none"
  /\ top_k_items = {}
  /\ calls = 1
  /\ first_mask = <<>>
  /\ train_buf = "none"
  /\ pred_buf = "none"
  /\ written = {}

e_args == <<e_fn, cf_model, user_item_matrix, frame_ok, int_dtype, test_size, k>>
e_prev == <<calls, first_mask>>

\* the except branch of either evaluator
Raise ==
  /\ e_pc' = "returned"
  /\ e_failed' = TRUE
  /\ metrics' = OnException(k)

\* evaluate_collaborative_filtering, lines 633-638
EvalStart ==
  /\ e_fn = "cf" /\ e_pc = "start"
  /\ IF frame_ok
     THEN /\ test_mask' = [r \in 1..NRows(user_item_matrix) |-> {}]
          /\ u' = 1
          /\ e_pc' = "holdout"
          /\ UNCHANGED <<e_failed, metrics>>
     ELSE Raise /\ UNCHANGED <<test_mask, u>>
  /\ UNCHANGED <<e_args, e_prev, train_matrix, predicted_shape, rmse, precision_at_k,
                 recall_at_k, random_state, dot_layout, top_k_items>>
  /\ UNCHANGED <<train_buf, pred_buf, written>>
  /\ UNCHANGED <<tvars, mvars, bvars, pvars>>

\* evaluate_collaborative_filtering, lines 639-646: one user of the holdout
\* loop.  The draw is made by the global generator as the caller left it.
EvalHoldout ==
  /\ e_fn = "cf" /\ e_pc = "holdout" /\ u <= NRows(user_item_matrix)
  /\ LET interacted_items == Interacted(user_item_matrix, u)
         n_test == NTest(test_size, Cardinality(interacted_items))
         last == (u = NRows(user_item_matrix))
     IN IF Cardinality(interacted_items) > MIN_INTERACTIONS
        THEN IF n_test <= Cardinality(interacted_items)
             THEN /\ test_mask' =
                       [test_mask EXCEPT ![u] = Sample(random_state, interacted_items, n_test)]
                  /\ random_state' = Advance(random_state, n_test)
                  /\ u' = u + 1
                  /\ e_pc' = IF last THEN "predict" ELSE "holdout"
                  /\ UNCHANGED <<e_failed, metrics>>
             ELSE Raise /\ UNCHANGED <<test_mask, u, random_state>>
        ELSE /\ u' = u + 1
             /\ e_pc' = IF last THEN "predict" ELSE "holdout"
             /\ UNCHANGED <<test_mask, e_failed, metrics, random_state>>
  /\ UNCHANGED <<e_args, e_prev, train_matrix, predicted_shape, rmse, precision_at_k,
                 recall_at_k, dot_layout, top_k_items>>
  /\ UNCHANGED <<train_buf, pred_buf, written>>
  /\ UNCHANGED <<tvars, mvars, bvars, pvars>>

\* evaluate_collaborative_filtering, lines 648-669: train matrix, predictions, RMSE.
\* predicted_ratings[test_mask] raises IndexError unless the shapes agree, and
\* mean_squared_error raises ValueError on no test cell.
EvalScore ==
  /\ e_fn = "cf" /\ e_pc = "predict"
  /\ LET shape == PredictedShapeCF(cf_model, user_item_matrix)
         n_cells == Cardinality(TestCells(test_mask))
     IN IF shape = <<NRows(user_item_matrix), NCols(user_item_matrix)>> /\ n_cells > 0
        THEN /\ train_matrix' = ZeroOut(user_item_matrix, test_mask)
             /\ predicted_shape' = shape
             /\ dot_layout' = DotLayout(cf_model)
             /\ \E wrong \in 0..n_cells : rmse' = RmseOver(TestCells(test_mask), wrong)
             /\ u' = 1
             /\ e_pc' = "rank"
             /\ UNCHANGED <<e_failed, metrics>>
        ELSE Raise /\ UNCHANGED <<train_matrix, predicted_shape, dot_layout, rmse, u>>
  /\ LET shape == PredictedShapeCF(cf_model, user_item_matrix)
         train_array == CopyOf("user_item_matrix", "train_matrix")
     IN /\ train_buf' = train_array
        /\ written' = IF TestCells(test_mask) # {}
                       THEN written \cup {train_array} ELSE written
        /\ pred_buf' = IF shape = <<>> THEN "none"
                        ELSE PredictedBuffer(cf_model, train_array)
  /\ UNCHANGED <<e_args, e_prev, test_mask, precision_at_k, recall_at_k, random_state,
                 top_k_items>>
  /\ UNCHANGED <<tvars, mvars, bvars, pvars>>

\* evaluate_collaborative_filtering, lines 675-696: one user of the ranking
\* loop.  Without a dict model predicted_ratings is train_matrix itself, and
\* line 685 raises OverflowError when it writes -inf into integer cells.
EvalRank ==
  /\ e_fn = "cf" /\ e_pc = "rank" /\ u <= NRows(user_item_matrix)
  /\ LET test_items == test_mask[u]
         train_items == Interacted(train_matrix, u)
         next == /\ u' = u + 1
                 /\ e_pc' = IF u = NRows(user_item_matrix) THEN "metrics" ELSE "rank"
                 /\ UNCHANGED <<e_failed, metrics>>
     IN IF test_items = {}
        THEN next /\ UNCHANGED <<precision_at_k, recall_at_k, top_k_items, written>>
        ELSE IF cf_model.kind # "dict" /\ int_dtype /\ train_items # {}
        THEN Raise /\ UNCHANGED <<precision_at_k, recall_at_k, top_k_items, u, written>>
        ELSE /\ next
             /\ written' = IF train_items # {} THEN written \cup {pred_buf} ELSE written
             /\ \E top \in TopKItems(NCols(user_item_matrix), k, train_items) :
                  LET n_relevant_and_recommended == Cardinality(top \cap test_items)
                  IN /\ top_k_items' = top
                     /\ precision_at_k' =
                          Append(precision_at_k,
                                 PrecisionCF(n_relevant_and_recommended, k, Cardinality(top)))
                     /\ recall_at_k' =
                          Append(recall_at_k,
                                 Recall(n_relevant_and_recommended, Cardinality(test_items)))
  /\ UNCHANGED <<e_args, e_prev, test_mask, train_matrix, predicted_shape, rmse,
                 random_state, dot_layout, train_buf, pred_buf>>
  /\ UNCHANGED <<tvars, mvars, bvars, pvars>>

\* evaluate_collaborative_filtering, lines 698-713
EvalReturn ==
  /\ e_fn = "cf" /\ e_pc = "metrics"
  /\ metrics' = Metrics(k, rmse, MeanOrZero(precision_at_k), MeanOrZero(recall_at_k))
  /\ e_pc' = "returned"
  /\ UNCHANGED <<e_args, e_prev, u, test_mask, train_matrix, predicted_shape, rmse,
                 precision_at_k, recall_at_k, e_failed, random_state, dot_layout,
                 top_k_items>>
  /\ UNCHANGED <<train_buf, pred_buf, written>>
  /\ UNCHANGED <<tvars, mvars, bvars, pvars>>

\* Lines 1367-1382: train_matrix and test_matrix after the loop over the
\* chosen cells
PostTrainMatrix(M, chosen) ==
  [r \in 1..NRows(M) |->
     [c \in 1..NCols(M) |-> IF <<r, c>> \in chosen /\ M[r][c] > 0 THEN 0 ELSE M[r][c]]]
PostTestMatrix(M, chosen) ==
  [r \in 1..NRows(M) |->
     [c \in 1..NCols(M) |-> IF <<r, c>> \in chosen /\ M[r][c] > 0 THEN M[r][c] ELSE M[r][c]]]

\* evaluate_post_collaborative_filtering, lines 1366-1382.  The generator is
\* seeded before the draw; test_mask is line 1390, (test_matrix > 0).values.
PostHoldout ==
  /\ e_fn = "post" /\ e_pc = "start"
  /\ IF frame_ok
     THEN LET n_users == NRows(user_item_matrix)
              n_posts == NCols(user_item_matrix)
              n_test == Trunc(test_size.n * n_users * n_posts, test_size.d)
              drawn == Sample(Seed(POST_SEED), 0..(n_users * n_posts - 1), n_test)
              test_indices == {CellOf(idx, n_posts) : idx \in drawn}
          IN /\ train_matrix' = PostTrainMatrix(user_item_matrix, test_indices)
             /\ test_mask' =
                  [r \in 1..n_users |->
                     Interacted(PostTestMatrix(user_item_matrix, test_indices), r)]
             /\ random_state' = Advance(Seed(POST_SEED), n_test)
             /\ e_pc' = "predict"
             /\ train_buf' = CopyOf("user_item_matrix", "train_matrix")
             /\ written' =
                  IF \E cell \in test_indices : user_item_matrix[cell[1]][cell[2]] > 0
                  THEN written \cup {CopyOf("user_item_matrix", "train_matrix"),
                                     CopyOf("user_item_matrix", "test_matrix")}
                  ELSE written
             /\ UNCHANGED <<e_failed, metrics>>
     ELSE Raise /\ UNCHANGED <<train_matrix, test_mask, random_state, train_buf, written>>
  /\ UNCHANGED <<e_args, e_prev, u, predicted_shape, rmse, precision_at_k, recall_at_k,
                 dot_layout, top_k_items, pred_buf>>
  /\ UNCHANGED <<tvars, mvars, bvars, pvars>>

\* evaluate_post_collaborative_filtering, lines 1385-1394
PostScore ==
  /\ e_fn = "post" /\ e_pc = "predict"
  /\ LET shape == PredictedShapePost(cf_model)
         n_cells == Cardinality(TestCells(test_mask))
         scored(wrong) ==
           /\ predicted_shape' = shape
           /\ dot_layout' = "factors_by_items"
           /\ rmse' = IF n_cells > 0 THEN RmseOver(TestCells(test_mask), wrong) ELSE Zero
           /\ u' = 1
           /\ e_pc' = "rank"
           /\ UNCHANGED <<e_failed, metrics>>
     IN IF shape = <<>> THEN Raise /\ UNCHANGED <<predicted_shape, dot_layout, rmse, u>>
        ELSE IF n_cells > 0
        THEN IF shape = <<NRows(user_item_matrix), NCols(user_item_matrix)>>
             THEN \E wrong \in 0..n_cells : scored(wrong)
             ELSE Raise /\ UNCHANGED <<predicted_shape, dot_layout, rmse, u>>
        ELSE scored(0)
  /\ pred_buf' = IF PredictedShapePost(cf_model) = <<>> THEN "none"
                  ELSE PredictedBuffer(cf_model, train_buf)
  /\ UNCHANGED <<e_args, e_prev, test_mask, train_matrix, precision_at_k, recall_at_k,
                 random_state, top_k_items, train_buf, written>>
  /\ UNCHANGED <<tvars, mvars, bvars, pvars>>

\* evaluate_post_collaborative_filtering, lines 1400-1414: one user of the
\* loop over range(min(10, n_users)); predictions[user_idx] raises IndexError
\* past the last row of predictions
PostRank ==
  /\ e_fn = "post" /\ e_pc = "rank"
  /\ u <= Min(POST_EVAL_USERS, NRows(user_item_matrix))
  /\ LET user_true == Interacted(user_item_matrix, u)
     IN IF u > predicted_shape[1]
        THEN Raise /\ UNCHANGED <<precision_at_k, recall_at_k, u, top_k_items>>
        ELSE /\ IF user_true = {}
                THEN UNCHANGED <<precision_at_k, recall_at_k, top_k_items>>
                ELSE \E top_k_indices \in
                          Choices(1..NCols(user_item_matrix), Min(k, NCols(user_item_matrix))) :
                       LET relevant_recommended == Cardinality(top_k_indices \cap user_true)
                       IN /\ top_k_items' = top_k_indices
                          /\ precision_at_k' =
                               Append(precision_at_k, PrecisionPost(relevant_recommended, k))
                          /\ recall_at_k' =
                               Append(recall_at_k,
                                      Recall(relevant_recommended, Cardinality(user_true)))
             /\ u' = u + 1
             /\ e_pc' = IF u = Min(POST_EVAL_USERS, NRows(user_item_matrix))
                        THEN "metrics" ELSE "rank"
             /\ UNCHANGED <<e_failed, metrics>>
  /\ UNCHANGED <<e_args, e_prev, test_mask, train_matrix, predicted_shape, rmse,
                 random_state, dot_layout>>
  /\ UNCHANGED <<train_buf, pred_buf, written>>
  /\ UNCHANGED <<tvars, mvars, bvars, pvars>>

\* evaluate_post_collaborative_filtering, lines 1416-1428
PostReturn ==
  /\ e_fn = "post" /\ e_pc = "metrics"
  /\ metrics' = Metrics(k, rmse, MeanOrZero(precision_at_k), MeanOrZero(recall_at_k))
  /\ e_pc' = "returned"
  /\ UNCHANGED <<e_args, e_prev, u, test_mask, train_matrix, predicted_shape, rmse,
                 precision_at_k, recall_at_k, e_failed, random_state, dot_layout,
                 top_k_items>>
  /\ UNCHANGED <<train_buf, pred_buf, written>>
  /\ UNCHANGED <<tvars, mvars, bvars, pvars>>

ENext == EvalStart \/ EvalHoldout \/ EvalScore \/ EvalRank \/ EvalReturn
           \/ PostHoldout \/ PostScore \/ PostRank \/ PostReturn

SpecEval == EInit /\ [][ENext]_vars

\* The caller calls the evaluator a second time with the arguments of the
\* first call; whatever ran in between has left the global generator in any
\* state.
CallAgain ==
  /\ e_pc = "returned" /\ calls = 1
  /\ calls' = 2
  /\ first_mask' = test_mask
  /\ random_state' \in RngStates
  /\ e_pc' = "start"
  /\ u' = 0
  /\ test_mask' = <<>>
  /\ train_matrix' = <<>>
  /\ predicted_shape' = NoShape
  /\ rmse' = NoValue
  /\ precision_at_k' = <<>>
  /\ recall_at_k' = <<>>
  /\ e_failed' = FALSE
  /\ metrics' = NoMetrics
  /\ dot_layout' = "none"
  /\ top_k_items' = {}
  /\ train_buf' = "none"
  /\ pred_buf' = "none"
  /\ written' = {}
  /\ UNCHANGED e_args
  /\ UNCHANGED <<tvars, mvars, bvars, pvars>>

RNext == EvalStart \/ EvalHoldout \/ EvalScore \/ EvalRank \/ EvalReturn
           \/ PostHoldout \/ PostScore \/ PostRank \/ PostReturn \/ CallAgain

SpecRepro == EInit /\ [][RNext]_vars

\* ------------------------------------------------------------ ID mappings
\* A label of the frame: an int or a str, each written by its characters.
IntLabel(chars) == [t |-> "int", v |-> chars]
StrLabel(chars) == [t |-> "str", v |-> chars]
\* the strings int() accepts
Numerals == {"1", "2", "1000"}
Labels == {IntLabel("1"), IntLabel("2"), StrLabel("1"), StrLabel("1000"), StrLabel("a")}
LabelLists == UNION {[1..n -> Labels] : n \in 1..MaxIds}

\* Line 166: str(user_id)
StrOf(label) == StrLabel(label.v)
\* Line 167: int(post_id) raises ValueError on a str that is no numeral
IntRaises(label) == label.t = "str" /\ label.v \notin Numerals
IntOf(label) == IntLabel(label.v)
\* the key made of a label: str(user_id) and int(post_id) at lines 166-167,
\* the label itself at lines 1160-1161
KeyOf(conv, label) ==
  IF conv = "str" THEN StrOf(label)
  ELSE IF conv = "int" THEN IntOf(label)
  ELSE label

\* Lines 166-167 (1160-1161): {key(id): i for i, id in enumerate(ids)}; of two
\* equal keys the later one stays
DictOf(ids, conv) ==
  [key \in {KeyOf(conv, ids[i]) : i \in DOMAIN ids} |->
     (CHOOSE i \in DOMAIN ids :
        /\ KeyOf(conv, ids[i]) = key
        /\ \A j \in DOMAIN ids : KeyOf(conv, ids[j]) = key => j <= i) - 1]

\* Lines 169-170 (1163-1164): {i: key(id) for id, i in map.items()}
ReverseOf(map, conv) ==
  [i \in {map[key] : key \in DOMAIN map} |->
     KeyOf(conv, CHOOSE key \in DOMAIN map : map[key] = i)]

MInit ==
  /\ TIdle
  /\ EIdle
  /\ BIdle
  /\ PIdle
  /\ m_fn \in {"cf", "hybrid"}
  /\ user_ids \in LabelLists
  /\ item_ids \in LabelLists
  /\ user_id_map = <<>>
  /\ item_id_map = <<>>
  /\ reverse_user_map = <<>>
  /\ reverse_item_map = <<>>
  /\ m_pc = "start"

\* train_collaborative_filtering, lines 163-171
CFBuildMaps ==
  /\ m_fn = "cf" /\ m_pc = "start"
  /\ IF \E i \in DOMAIN item_ids : IntRaises(item_ids[i])
     THEN /\ m_pc' = "raised"
          /\ UNCHANGED <<user_id_map, item_id_map, reverse_user_map, reverse_item_map>>
     ELSE /\ user_id_map' = DictOf(user_ids, "str")
          /\ item_id_map' = DictOf(item_ids, "int")
          /\ reverse_user_map' = ReverseOf(DictOf(user_ids, "str"), "str")
          /\ reverse_item_map' = ReverseOf(DictOf(item_ids, "int"), "int")
          /\ m_pc' = "built"
  /\ UNCHANGED <<m_fn, user_ids, item_ids>>
  /\ UNCHANGED <<tvars, evars, bvars, pvars>>

\* train_hybrid_recommendation_model, lines 1157-1165
HybridBuildMaps ==
  /\ m_fn = "hybrid" /\ m_pc = "start"
  /\ user_id_map' = DictOf(user_ids, "same")
  /\ item_id_map' = DictOf(item_ids, "same")
  /\ reverse_user_map' = ReverseOf(DictOf(user_ids, "same"), "same")
  /\ reverse_item_map' = ReverseOf(DictOf(item_ids, "same"), "same")
  /\ m_pc' = "built"
  /\ UNCHANGED <<m_fn, user_ids, item_ids>>
  /\ UNCHANGED <<tvars, evars, bvars, pvars>>

MNext == CFBuildMaps \/ HybridBuildMaps

SpecMaps == MInit /\ [][MNext]_vars

\* ------------------------------------------------------------ business evaluators
\* -np.inf (lines 759, 788), written as a number below every similarity
NegInf == -1
\* similarity levels: 0 for unrelated features, 1 for equal features
Similarities == {0, 1}
BusinessCounts == {2, 3}
\* what cosine_similarity (line 358) returns: symmetric, 1 on the diagonal
SimilarityMatrices ==
  UNION {{S \in Matrices(n, n, Similarities) :
            \A r, c \in 1..n : S[r][r] = 1 /\ S[r][c] = S[c][r]} : n \in BusinessCounts}
CategoryNames == {"Electronics", "Textiles"}
BusinessCutoffs == {1, 2, 5}

\* Lines 758-759 (787-788): sim_scores is a view of row i of the matrix, and
\* sim_scores[i] = -np.inf assigns the cell of the matrix
SetSelfScore(S, i) == [S EXCEPT ![i][i] = NegInf]

\* Line 760 (789): np.argsort(-sim_scores)[:k], the min(k, n) indices of the
\* greatest scores; the order of equal scores is the sort's
TopKDescending(scores, kk) ==
  {T \in SUBSET DOMAIN scores :
     /\ Cardinality(T) = Min(kk, Len(scores))
     /\ \A a \in T, b \in DOMAIN scores \ T : scores[a] >= scores[b]}

\* Line 1452: np.argsort(similarities)[-k-1:-1], the indices sorted by
\* ascending score without the last one, m, and then the last min(k, n - 1)
\* of the others
TopKBelowLast(scores, kk) ==
  {T \in SUBSET DOMAIN scores :
     \E m \in DOMAIN scores \ T :
       /\ \A b \in DOMAIN scores : scores[m] >= scores[b]
       /\ Cardinality(T) = Min(kk, Len(scores) - 1)
       /\ \A a \in T, b \in DOMAIN scores \ (T \cup {m}) : scores[a] >= scores[b]}

\* Lines 745-749, 763 (1459): the other businesses of the category of i
SameCategory(cats, i) == {j \in DOMAIN cats \ {i} : cats[j] = cats[i]}

\* Line 1461
PrecisionCompany(hits, kk) == IF kk > 0 THEN Num(hits, kk) ELSE Zero

BusinessMetricKeys(kk) ==
  {"precision@" \o ToString(kk), "recall@" \o ToString(kk), "f1@" \o ToString(kk),
   "category_coverage"}

\* Lines 794-799 (1474-1479)
BusinessMetrics(kk, pr, rc, coverage) ==
  [key \in BusinessMetricKeys(kk) |->
     IF key = "precision@" \o ToString(kk) THEN pr
     ELSE IF key = "recall@" \o ToString(kk) THEN rc
     ELSE IF key = "category_coverage" THEN coverage
     ELSE F1Score(pr, rc)]

\* Lines 804-811 (1484-1486)
OnBusinessException(kk) == [key \in BusinessMetricKeys(kk) |-> Zero]

BInit ==
  /\ TIdle
  /\ EIdle
  /\ MIdle
  /\ PIdle
  /\ b_fn \in {"business", "company"}
  /\ similarity_matrix \in SimilarityMatrices
  /\ sim_before = similarity_matrix
  /\ categories \in [1..NRows(similarity_matrix) -> CategoryNames]
  /\ b_frame_ok \in BOOLEAN
  /\ b_k \in BusinessCutoffs
  /\ b_pc = "start"
  /\ b_i = 0
  /\ b_top = {}
  /\ b_precision = <<>>
  /\ b_recall = <<>>
  /\ recommended_categories = {}
  /\ b_failed = FALSE
  /\ b_metrics = NoMetrics

b_args == <<b_fn, sim_before, categories, b_frame_ok, b_k>>

\* the except branch of either business evaluator
BusinessRaise ==
  /\ b_pc' = "returned"
  /\ b_failed' = TRUE
  /\ b_metrics' = OnBusinessException(b_k)

\* evaluate_business_recommendations, lines 741-753, and
\* evaluate_company_recommendations, lines 1442-1444:
\* business_df['Category'] raises KeyError without the column
BusinessStart ==
  /\ b_pc = "start"
  /\ IF b_frame_ok
     THEN /\ b_pc' = "rank"
          /\ b_i' = 1
          /\ UNCHANGED <<b_failed, b_metrics>>
     ELSE BusinessRaise /\ UNCHANGED b_i
  /\ UNCHANGED <<b_args, similarity_matrix, b_top, b_precision, b_recall,
                 recommended_categories>>
  /\ UNCHANGED <<tvars, evars, mvars, pvars>>

\* evaluate_business_recommendations, lines 755-774: one business of the
\* first loop
BusinessRank ==
  /\ b_fn = "business" /\ b_pc = "rank" /\ b_i <= Len(categories)
  /\ LET written_matrix == SetSelfScore(similarity_matrix, b_i)
         relevant_indices == SameCategory(categories, b_i)
         last == (b_i = Len(categories))
     IN /\ similarity_matrix' = written_matrix
        /\ \E top \in TopKDescending(written_matrix[b_i], b_k) :
             LET n_relevant_and_recommended == Cardinality(top \cap relevant_indices)
             IN /\ b_top' = top
                /\ IF relevant_indices = {}
                   THEN UNCHANGED <<b_precision, b_recall>>
                   ELSE /\ b_precision' =
                             Append(b_precision,
                                    PrecisionCF(n_relevant_and_recommended, b_k,
                                                Cardinality(top)))
                        /\ b_recall' =
                             Append(b_recall,
                                    Recall(n_relevant_and_recommended,
                                           Cardinality(relevant_indices)))
        /\ b_i' = IF last THEN 1 ELSE b_i + 1
        /\ b_pc' = IF last THEN "coverage" ELSE "rank"
  /\ UNCHANGED <<b_args, recommended_categories, b_failed, b_metrics>>
  /\ UNCHANGED <<tvars, evars, mvars, pvars>>

\* evaluate_business_recommendations, lines 786-790: one business of the
\* category coverage loop
BusinessCoverage ==
  /\ b_fn = "business" /\ b_pc = "coverage" /\ b_i <= Len(categories)
  /\ LET written_matrix == SetSelfScore(similarity_matrix, b_i)
         last == (b_i = Len(categories))
     IN /\ similarity_matrix' = written_matrix
        /\ \E top \in TopKDescending(written_matrix[b_i], b_k) :
             /\ b_top' = top
             /\ recommended_categories' =
                  recommended_categories \cup {categories[j] : j \in top}
        /\ b_i' = b_i + 1
        /\ b_pc' = IF last THEN "metrics" ELSE "coverage"
  /\ UNCHANGED <<b_args, b_precision, b_recall, b_failed, b_metrics>>
  /\ UNCHANGED <<tvars, evars, mvars, pvars>>

\* evaluate_business_recommendations, lines 776-802
BusinessReturn ==
  /\ b_fn = "business" /\ b_pc = "metrics"
  /\ LET unique_categories == Cardinality({categories[j] : j \in DOMAIN categories})
         category_coverage ==
           IF unique_categories > 0
           THEN Num(Cardinality(recommended_categories), unique_categories) ELSE Zero
     IN b_metrics' = BusinessMetrics(b_k, MeanOrZero(b_precision), MeanOrZero(b_recall),
                                     category_coverage)
  /\ b_pc' = "returned"
  /\ UNCHANGED <<b_args, similarity_matrix, b_i, b_top, b_precision, b_recall,
                 recommended_categories, b_failed>>
  /\ UNCHANGED <<tvars, evars, mvars, pvars>>

\* evaluate_company_recommendations, lines 1446-1465: one business of the loop
CompanyRank ==
  /\ b_fn = "company" /\ b_pc = "rank" /\ b_i <= Len(categories)
  /\ b_i <= NRows(similarity_matrix)
  /\ \E top \in TopKBelowLast(similarity_matrix[b_i], b_k) :
       LET relevant_recommended ==
             Cardinality({j \in top : categories[j] = categories[b_i]})
           same_category_count == Cardinality(SameCategory(categories, b_i))
       IN /\ b_top' = top
          /\ b_precision' = Append(b_precision, PrecisionCompany(relevant_recommended, b_k))
          /\ b_recall' = Append(b_recall, Recall(relevant_recommended, same_category_count))
  /\ b_i' = b_i + 1
  /\ b_pc' = IF b_i = Len(categories) THEN "metrics" ELSE "rank"
  /\ UNCHANGED <<b_args, similarity_matrix, recommended_categories, b_failed, b_metrics>>
  /\ UNCHANGED <<tvars, evars, mvars, pvars>>

\* evaluate_company_recommendations, lines 1467-1482
CompanyReturn ==
  /\ b_fn = "company" /\ b_pc = "metrics"
  /\ LET n_categories == Cardinality({categories[j] : j \in DOMAIN categories})
         category_coverage ==
           IF Len(categories) > 0 THEN Num(n_categories, Len(categories)) ELSE Zero
     IN b_metrics' = BusinessMetrics(b_k, MeanOrZero(b_precision), MeanOrZero(b_recall),
                                     category_coverage)
  /\ b_pc' = "returned"
  /\ UNCHANGED <<b_args, similarity_matrix, b_i, b_top, b_precision, b_recall,
                 recommended_categories, b_failed>>
  /\ UNCHANGED <<tvars, evars, mvars, pvars>>

BNext == BusinessStart \/ BusinessRank \/ BusinessCoverage \/ BusinessReturn
           \/ CompanyRank \/ CompanyReturn

SpecBusiness == BInit /\ [][BNext]_vars

\* ------------------------------------------------------------ main()
\* Lines 134-139: the columns of the dummy business features
BaseColumns == {"Business Name", "Category", "Trade Type", "Business Size"}
\* Lines 309-312: the numerical features read from the frame
TradeColumns ==
  {"Annual Trade Volume (M USD)", "Trade Growth Rate (%)", "Trade Success Rate (%)",
   "Trade Frequency (per year)"}
\* Lines 408-410
CoreIndicators ==
  {"gdp_growth_annual_pct", "inflation_consumer_prices_annual_pct",
   "population_growth_annual_pct"}
\* Lines 71-77: the economic frame load_data builds
LoadedEconomicColumns == CoreIndicators \cup {"tourism_sensitivity", "ramadan_factor"}
\* Line 141: the economic frame of create_dummy_post_data
DummyEconomicColumns == {"gdp_growth_annual_pct"}

\* Lines 47-97 and 99-151: what load_data returns
LoadData(readable, columns) ==
  IF readable
  THEN [source |-> "files", business |-> columns, economic |-> LoadedEconomicColumns]
  ELSE [source |-> "dummy", business |-> BaseColumns, economic |-> DummyEconomicColumns]

\* Lines 281-334: train_content_based_business reads the base columns and,
\* at line 334, business_df[features] with the four trade columns; a column
\* that is not in the frame raises KeyError
ContentBasedException(columns) ==
  IF (BaseColumns \cup TradeColumns) \subseteq columns THEN "none" ELSE "KeyError"

\* Lines 408-410: economic_data.get(column, [default]).iloc[0]; for a column
\* that is not in the frame get returns the list, which has no iloc
EconomicException(columns) ==
  IF CoreIndicators \subseteq columns THEN "none" ELSE "AttributeError"

\* Lines 153-270 on the 3 x 3 matrix: train_collaborative_filtering raises
\* when the factors and the interaction tensor end on two devices
CollaborativeException(cuda, fail) ==
  LET placed == PlaceCF(cuda, fail, 3, 3)
  IN IF ~OptimizerOK(placed.uf, placed.pf) THEN "ValueError"
     ELSE IF ~SameDevice(placed.tensor, placed.uf, placed.pf) THEN "RuntimeError"
     ELSE "none"

MainStages ==
  <<"load_data", "train_collaborative_filtering", "train_content_based_business",
    "create_business_post_affinity", "train_economic_context_model",
    "train_hybrid_post_recommendation_model", "evaluate_post_collaborative_filtering",
    "evaluate_company_recommendations">>

PInit ==
  /\ TIdle
  /\ EIdle
  /\ MIdle
  /\ BIdle
  /\ p_pc = "load_data"
  /\ files_ok \in BOOLEAN
  /\ file_columns \in (IF files_ok THEN SUBSET (BaseColumns \cup TradeColumns) ELSE {{}})
  /\ p_cuda \in BOOLEAN
  /\ data_source = "none"
  /\ business_columns = {}
  /\ economic_columns = {}
  /\ stages_done = <<>>
  /\ p_exc = "none"
  /\ p_result = NoResult

p_env == <<files_ok, file_columns, p_cuda>>
p_data == <<data_source, business_columns, economic_columns>>

\* a stage of main() ends: with no exception main() goes on to the next
\* stage; an exception is logged and raised again by the stage (lines
\* 268-270, 389-391), by train_hybrid_post_recommendation_model (1318-1320)
\* and by main() (1258-1260)
StageEnds(stage, exception, next) ==
  IF exception = "none"
  THEN /\ p_pc' = next
       /\ stages_done' = Append(stages_done, stage)
       /\ UNCHANGED <<p_exc, p_result>>
  ELSE /\ p_pc' = "raised"
       /\ p_exc' = exception
       /\ UNCHANGED <<stages_done, p_result>>

\* main(), line 1213
MainLoadData ==
  /\ p_pc = "load_data"
  /\ LET data == LoadData(files_ok, file_columns)
     IN /\ data_source' = data.source
        /\ business_columns' = data.business
        /\ economic_columns' = data.economic
  /\ StageEnds("load_data", "none", "train_collaborative_filtering")
  /\ UNCHANGED p_env
  /\ UNCHANGED <<tvars, evars, mvars, bvars>>

\* train_hybrid_post_recommendation_model, line 1270
MainTrainCF ==
  /\ p_pc = "train_collaborative_filtering"
  /\ \E fail \in (IF p_cuda THEN 0..3 ELSE {0}) :
       StageEnds("train_collaborative_filtering", CollaborativeException(p_cuda, fail),
                 "train_content_based_business")
  /\ UNCHANGED <<p_env, p_data>>
  /\ UNCHANGED <<tvars, evars, mvars, bvars>>

\* train_hybrid_post_recommendation_model, line 1273
MainContentBased ==
  /\ p_pc = "train_content_based_business"
  /\ StageEnds("train_content_based_business", ContentBasedException(business_columns),
               "create_business_post_affinity")
  /\ UNCHANGED <<p_env, p_data>>
  /\ UNCHANGED <<tvars, evars, mvars, bvars>>

\* train_hybrid_post_recommendation_model, line 1276: the posts frame has
\* the columns lines 1329-1342 read, in the files as in the dummy data
MainAffinity ==
  /\ p_pc = "create_business_post_affinity"
  /\ StageEnds("create_business_post_affinity", "none", "train_economic_context_model")
  /\ UNCHANGED <<p_env, p_data>>
  /\ UNCHANGED <<tvars, evars, mvars, bvars>>

\* train_hybrid_post_recommendation_model, line 1279
MainEconomic ==
  /\ p_pc = "train_economic_context_model"
  /\ StageEnds("train_economic_context_model", EconomicException(economic_columns),
               "train_hybrid_post_recommendation_model")
  /\ UNCHANGED <<p_env, p_data>>
  /\ UNCHANGED <<tvars, evars, mvars, bvars>>

\* train_hybrid_post_recommendation_model, lines 1282-1316
MainCombine ==
  /\ p_pc = "train_hybrid_post_recommendation_model"
  /\ StageEnds("train_hybrid_post_recommendation_model", "none",
               "evaluate_post_collaborative_filtering")
  /\ UNCHANGED <<p_env, p_data>>
  /\ UNCHANGED <<tvars, evars, mvars, bvars>>

\* main(), lines 1222-1228: the evaluator returns a record on every path
MainEvaluatePost ==
  /\ p_pc = "evaluate_post_collaborative_filtering"
  /\ StageEnds("evaluate_post_collaborative_filtering", "none",
               "evaluate_company_recommendations")
  /\ UNCHANGED <<p_env, p_data>>
  /\ UNCHANGED <<tvars, evars, mvars, bvars>>

\* main(), lines 1231-1256
MainEvaluateCompany ==
  /\ p_pc = "evaluate_company_recommendations"
  /\ p_pc' = "returned"
  /\ stages_done' = Append(stages_done, "evaluate_company_recommendations")
  /\ p_result' = [kind |-> "main", hybrid_model |-> TRUE, evaluation_results |-> TRUE]
  /\ UNCHANGED <<p_env, p_data, p_exc>>
  /\ UNCHANGED <<tvars, evars, mvars, bvars>>

PNext == MainLoadData \/ MainTrainCF \/ MainContentBased \/ MainAffinity \/ MainEconomic
           \/ MainCombine \/ MainEvaluatePost \/ MainEvaluateCompany

SpecMain == PInit /\ [][PNext]_vars

\* ------------------------------------------------------------ trainer claims
Observed(M) == {rc \in (1..NRows(M)) \X (1..NCols(M)) : M[rc[1]][rc[2]] > 0}
Patience == IF fn = "cf" THEN CF_PATIENCE ELSE HYBRID_PATIENCE
Budget == IF fn = "cf" THEN CF_EPOCHS ELSE HYBRID_EPOCHS
LoopRan == epoch > 0

\* C3: in every epoch of both training loops the data loss is divided by the
\* number of strictly positive cells when there is one, and by
\* n_users * n_items otherwise; the divisor is never zero.
C3_LossDivisor ==
  LoopRan =>
    /\ divisor # 0
    /\ divisor = IF Observed(user_item) # {}
                 THEN Cardinality(Observed(user_item))
                 ELSE NRows(user_item) * NCols(user_item)

\* C4: when a transfer to the accelerator fails, the trainer does not raise
\* and the interaction tensor and both factor matrices are on the host.
C4_PlacementFallback ==
  place_failed =>
    /\ t_pc # "raised"
    /\ tensor_device = "cpu"
    /\ user_factors.device = "cpu"
    /\ item_factors.device = "cpu"

\* C5: the loop stops at the first epoch at which the loss has not been
\* strictly below the best loss for `patience` epochs in a row (never earlier,
\* never later), and an epoch whose loss is strictly below the best loss
\* sets the patience counter to 0.
C5_EarlyStopping ==
  /\ t_pc = "loop" => epoch - last_improved < Patience
  /\ early_stopped => epoch - last_improved = Patience
  /\ (t_pc \in {"after_loop", "returned"} /\ LoopRan /\ ~early_stopped) =>
       (epoch = Budget /\ epoch - last_improved < Patience)
  /\ (LoopRan /\ last_improved = epoch) => patience_counter = 0
  /\ (LoopRan /\ improved) => last_improved = epoch

C5_Witness ==
  /\ early_stopped /\ t_pc = "returned"
  /\ last_improved > 2 /\ epoch < Budget

\* C6: the final_loss train_collaborative_filtering returns is the least of
\* the losses of the epochs it executed.
C6_FinalLossIsMinimum ==
  t_result.kind = "cf" =>
    /\ min_seen.k = "num"
    /\ t_result.model.final_loss = min_seen

C6_Witness ==
  /\ t_result.kind = "cf" /\ epoch > 2
  /\ ~improved /\ last_improved > 1

\* C7: every trainer path returns user factors of shape (users, k), item
\* factors of shape (k, items) and a final loss, for a matrix (users, items).
C7_OutputShapes ==
  t_pc = "returned" =>
    LET m == t_result.model
        nf == IF fn = "cf" THEN CF_N_FACTORS ELSE HYBRID_N_FACTORS
    IN /\ m.user_factors.shape = <<NRows(user_item), nf>>
       /\ \E key \in DOMAIN m \ {"user_factors", "final_loss"} :
            m[key].shape = <<nf, NCols(user_item)>>
       /\ "final_loss" \in DOMAIN m

\* ------------------------------------------------------------ evaluator claims
PositiveItems(M, r) == {c \in DOMAIN M[r] : M[r][c] # 0 /\ ~(M[r][c] < 0)}
HeldOut(r) == test_mask[r]
\* the rows the holdout loop has been through
Processed == IF e_pc = "holdout" THEN 1..(u - 1) ELSE DOMAIN test_mask
\* Python's round(): to the nearest integer, a tie to the even one
Round(a, b) ==
  LET q == a \div b
      rem == a % b
  IN IF 2 * rem < b THEN q
     ELSE IF 2 * rem > b THEN q + 1
     ELSE IF q % 2 = 0 THEN q ELSE q + 1

\* C1: neither CF evaluator raises: every call ends with a record of exactly
\* the keys rmse, precision@k, recall@k, f1@k, and after a failure of any
\* step all four values are 0.
C1_EvaluatorNeverRaises ==
  /\ e_pc \in {"idle", "start", "holdout", "predict", "rank", "metrics", "returned"}
  /\ e_pc = "returned" => DOMAIN metrics = MetricKeys(k)
  /\ e_pc # "returned" => metrics = NoMetrics
  /\ e_failed => /\ e_pc = "returned"
                 /\ Cardinality(DOMAIN metrics) = 4
                 /\ \A key \in DOMAIN metrics : metrics[key] = Zero

C1_Witness ==
  /\ e_failed /\ e_pc = "returned" /\ frame_ok
  /\ cf_model.kind = "dict" /\ TestCells(test_mask) # {}

\* C2: the model train_collaborative_filtering returns, evaluated by
\* evaluate_collaborative_filtering on the matrix it was trained on, does not
\* send the evaluator down its failure path.
C2_TrainerComposesWithEvaluator ==
  ( /\ e_fn = "cf" /\ e_pc = "returned"
    /\ cf_model = TrainedCF(user_item_matrix)
    /\ frame_ok
    /\ test_size.n <= test_size.d
    /\ TestCells(test_mask) # {} )
  => ~e_failed

\* C8: the held-out cells of a user are among the positive cells of the row,
\* no more than the row has, and none for a user of 5 or fewer positive cells.
C8_HoldoutWithinObserved ==
  e_fn = "cf" =>
    \A r \in DOMAIN test_mask :
      /\ HeldOut(r) \subseteq PositiveItems(user_item_matrix, r)
      /\ Cardinality(HeldOut(r)) <= Cardinality(PositiveItems(user_item_matrix, r))
      /\ Cardinality(PositiveItems(user_item_matrix, r)) <= 5 => HeldOut(r) = {}

C8_Witness ==
  /\ e_fn = "cf" /\ e_pc = "predict" /\ NRows(user_item_matrix) = 2
  /\ Cardinality(PositiveItems(user_item_matrix, 1)) = 5
  /\ Cardinality(PositiveItems(user_item_matrix, 2)) > 5
  /\ HeldOut(1) = {} /\ Cardinality(HeldOut(2)) > 1

\* C9 as stated: a user of more than 5 positive cells gets exactly
\* max(1, round(test_fraction * observed_count)) held-out cells, for every
\* test_fraction in [0, 1].
C9_RoundedCount ==
  (e_fn = "cf" /\ test_size.n <= test_size.d) =>
    \A r \in Processed \cap DOMAIN test_mask :
      LET observed_count == Cardinality(PositiveItems(user_item_matrix, r))
      IN observed_count > 5 =>
           Cardinality(HeldOut(r)) = Max(1, Round(test_size.n * observed_count, test_size.d))

\* C9 amended: a user of more than 5 positive cells gets exactly
\* max(1, int(test_fraction * observed_count)) distinct held-out cells, the
\* product truncated, for every test_fraction in [0, 1].
C9_TruncatedCount ==
  (e_fn = "cf" /\ test_size.n <= test_size.d) =>
    \A r \in Processed \cap DOMAIN test_mask :
      LET observed_count == Cardinality(PositiveItems(user_item_matrix, r))
          product == (test_size.n * observed_count) \div test_size.d
      IN observed_count > 5 =>
           Cardinality(HeldOut(r)) = IF product < 1 THEN 1 ELSE product

C9_Witness ==
  /\ e_fn = "cf" /\ e_pc = "predict"
  /\ test_size = [n |-> 3, d |-> 10]
  /\ \E r \in DOMAIN test_mask :
       /\ Cardinality(PositiveItems(user_item_matrix, r)) = 6
       /\ Cardinality(HeldOut(r)) = 1

\* C10: with test_size 0.2 and k = 10 on a matrix whose every user has exactly
\* 6 positive cells, every user has exactly 1 held-out cell and every user
\* enters the ranking metrics.
C10_Scenario ==
  ( /\ e_fn = "cf" /\ test_size = [n |-> 1, d |-> 5] /\ k = 10
    /\ \A r \in DOMAIN user_item_matrix :
         Cardinality(PositiveItems(user_item_matrix, r)) = 6 )
  => /\ \A r \in Processed \cap DOMAIN test_mask : Cardinality(HeldOut(r)) = 1
     /\ (e_pc = "metrics" \/ (e_pc = "returned" /\ ~e_failed)) =>
          /\ Len(precision_at_k) = NRows(user_item_matrix)
          /\ Len(recall_at_k) = NRows(user_item_matrix)

C10_Witness ==
  /\ e_fn = "cf" /\ test_size = [n |-> 1, d |-> 5] /\ k = 10
  /\ NRows(user_item_matrix) = 2
  /\ \A r \in DOMAIN user_item_matrix :
       Cardinality(PositiveItems(user_item_matrix, r)) = 6
  /\ e_pc = "returned" /\ ~e_failed
  /\ Len(precision_at_k) = 2

\* ------------------------------------------------- evaluator claims, metrics
\* the cells the holdout zeroed in the train matrix
HeldOutCells ==
  IF e_fn = "cf" THEN TestCells(test_mask)
  ELSE IF train_matrix = <<>> THEN {}
  ELSE Observed(user_item_matrix) \ Observed(train_matrix)
\* a reported value that is 0
IsZero(x) == IF x.k = "rmse" THEN x.sq.n = 0 ELSE x.k = "num" /\ x.n = 0
InUnitInterval(x) == x.d > 0 /\ 0 <= x.n /\ x.n <= x.d
\* the rational x equals n / d
RatEq(x, n, d) == x.d > 0 /\ d > 0 /\ x.n * d = n * x.d
\* the ranking loop of evaluate_collaborative_filtering has just ranked user u - 1
Ranked ==
  /\ e_fn = "cf" /\ e_pc \in {"rank", "metrics", "returned"} /\ ~e_failed
  /\ u > 1 /\ test_mask[u - 1] # {}
LastPrecision == precision_at_k[Len(precision_at_k)]
LastRecall == recall_at_k[Len(recall_at_k)]
LastHits == Cardinality(top_k_items \cap test_mask[u - 1])

C13_UnitInterval ==
  /\ \A i \in DOMAIN precision_at_k : InUnitInterval(precision_at_k[i])
  /\ \A i \in DOMAIN recall_at_k : InUnitInterval(recall_at_k[i])

C13_Witness ==
  /\ e_pc = "metrics" /\ k > NCols(user_item_matrix)
  /\ Len(precision_at_k) = 2
  /\ LastPrecision.n > 1 /\ LastPrecision.n < LastPrecision.d
  /\ LastRecall.n > 1 /\ LastRecall.n = LastRecall.d

\* C14: the reported f1@k is 0 exactly when the averaged precision and the
\* averaged recall are both 0 and positive otherwise, and no quotient of the
\* computation has a zero divisor, also when no user is evaluated.
C14_F1ZeroIffBothZero ==
  e_pc = "returned" =>
    LET p == metrics["precision@" \o ToString(k)]
        r == metrics["recall@" \o ToString(k)]
        f == metrics["f1@" \o ToString(k)]
    IN /\ p.d > 0 /\ r.d > 0 /\ f.d > 0
       /\ f.n >= 0
       /\ (f.n = 0) <=> (p.n = 0 /\ r.n = 0)

C14_Witness ==
  /\ e_pc = "returned" /\ ~e_failed
  /\ metrics["precision@" \o ToString(k)].n > 0
  /\ metrics["precision@" \o ToString(k)].n < metrics["precision@" \o ToString(k)].d
  /\ metrics["f1@" \o ToString(k)].n > 0

\* C15 as stated: for every user evaluate_collaborative_filtering ranks,
\* precision@k is |recommended /\ test items| / k and recall@k is
\* |recommended /\ test items| / |test items|, also with fewer than k items.
C15_PrecisionOverK ==
  Ranked =>
    /\ RatEq(LastPrecision, LastHits, k)
    /\ RatEq(LastRecall, LastHits, Cardinality(test_mask[u - 1]))

\* C15 amended: precision@k is |recommended /\ test items| divided by
\* min(k, number of items), the size of the recommended set, and recall@k is
\* |recommended /\ test items| / |test items|.
C15_PrecisionOverRecommended ==
  Ranked =>
    /\ Cardinality(top_k_items) = Min(k, NCols(user_item_matrix))
    /\ RatEq(LastPrecision, LastHits, Min(k, NCols(user_item_matrix)))
    /\ RatEq(LastRecall, LastHits, Cardinality(test_mask[u - 1]))

C15_Witness ==
  /\ Ranked /\ k > NCols(user_item_matrix)
  /\ LastHits > 0 /\ LastPrecision.n = LastHits
  /\ LastPrecision.d = NCols(user_item_matrix)

\* C16: the recommended set of a user evaluate_collaborative_filtering ranks
\* contains no item that is positive for that user in the train matrix.
C16_TopKExcludesTrainItems ==
  Ranked => top_k_items \cap Interacted(train_matrix, u - 1) = {}

\* C17: evaluate_post_collaborative_filtering averages precision and recall
\* over exactly the users that have at least one held-out test item.
C17_PostAveragesHeldOutUsers ==
  (e_fn = "post" /\ e_pc \in {"metrics", "returned"} /\ ~e_failed) =>
    Len(precision_at_k) =
      Cardinality({r \in 1..NRows(user_item_matrix) :
                     \E cell \in HeldOutCells : cell[1] = r})

\* C18: given user factors (users, k) and item factors in either layout,
\* evaluate_collaborative_filtering multiplies the user factors with the item
\* factors read in the layout they have, also when items = k.
C18_DotProductOrientation ==
  (e_fn = "cf" /\ cf_model.kind = "dict" /\ dot_layout # "none") =>
    /\ predicted_shape = <<NRows(user_item_matrix), NCols(user_item_matrix)>>
    /\ dot_layout = cf_model.item_layout

\* C20: a second call of a CF evaluator with the arguments of the first call
\* that reaches its metrics has selected the same held-out test cells as the
\* first call, whatever state the global generator is in before each call.
C20_SameHoldoutOnSecondCall ==
  (calls = 2 /\ e_pc = "returned" /\ ~e_failed) => test_mask = first_mask

\* ------------------------------------------------------ ID mapping claims
Unique(ids) == \A i, j \in DOMAIN ids : ids[i] = ids[j] => i = j

\* C19: for unique row labels and unique column labels the mappings of both
\* trainers are inverse bijections onto the zero-based indices: every index i
\* of 0..n-1 has reverse_map[i] defined and map[reverse_map[i]] = i.
C19_IdMapsInverse ==
  (m_pc = "built" /\ Unique(user_ids) /\ Unique(item_ids)) =>
    /\ \A i \in 0..(Len(user_ids) - 1) :
         /\ i \in DOMAIN reverse_user_map
         /\ reverse_user_map[i] \in DOMAIN user_id_map
         /\ user_id_map[reverse_user_map[i]] = i
    /\ \A i \in 0..(Len(item_ids) - 1) :
         /\ i \in DOMAIN reverse_item_map
         /\ reverse_item_map[i] \in DOMAIN item_id_map
         /\ item_id_map[reverse_item_map[i]] = i

\* ------------------------------------------------- trainer claims, control flow
TorchPath == fn = "cf" \/ ~has_implicit
TrainerDone == t_pc \in {"returned", "raised"}

\* C21: when a step of either trainer raises (a missing key, a value that is
\* no frame, cells that are no numbers, an optimizer or a device error), the
\* exception is logged and reaches the caller, and no model is returned in
\* its place; a model is returned only when no step raised.
C21_ExceptionReachesCaller ==
  /\ t_exc.type # "none" =>
       /\ t_pc = "raised"
       /\ t_exc.logged
       /\ t_result = NoResult
  /\ t_pc = "raised" => t_exc.type # "none"
  /\ (data_fault # "none" /\ t_pc # "start") =>
       /\ t_exc.type = SetupException(data_fault)
       /\ epoch = 0
  /\ t_result # NoResult => (t_pc = "returned" /\ t_exc.type = "none")

C21_Witness ==
  /\ t_pc = "raised" /\ data_fault = "non_numeric"
  /\ t_exc = [type |-> "TypeError", logged |-> TRUE]
  /\ t_result = NoResult

\* C22: both training loops terminate: a trainer always comes to return or
\* to raise; the loop of train_collaborative_filtering runs at least 1 and at
\* most 50 epochs and the PyTorch loop of train_hybrid_recommendation_model
\* at least 1 and at most 25; the factors returned are the factors the last
\* epoch left, with one optimizer step per epoch and none after the loop.
C22_LoopsTerminate ==
  /\ [](epoch <= Budget /\ opt_steps = epoch)
  /\ []((t_pc \in {"after_loop", "returned"} /\ TorchPath) => epoch >= 1)
  /\ [](t_pc = "returned" => t_result.factors_after = epoch)
  /\ <>TrainerDone

C22_Witness ==
  /\ t_pc = "returned" /\ TorchPath
  /\ epoch = Budget /\ ~early_stopped
  /\ t_result.factors_after = Budget

\* C28: the factors train_collaborative_filtering returns are the factors
\* after the last optimizer step executed, while final_loss is the loss of
\* the last epoch that lowered the best loss; after an early stop the
\* returned factors are `patience` steps past that epoch.
C28_ReturnedFactorsAreLast ==
  t_result.kind = "cf" =>
    /\ t_result.factors_after = epoch
    /\ t_result.model.final_loss = min_seen
    /\ last_improved <= t_result.factors_after
    /\ early_stopped => t_result.factors_after = last_improved + CF_PATIENCE

C28_Witness ==
  /\ t_result.kind = "cf" /\ early_stopped
  /\ last_improved > 1
  /\ t_result.factors_after = last_improved + CF_PATIENCE

\* C29: in both training loops, at the start of every epoch
\* 0 <= patience_counter < patience and the counter is the number of epochs
\* executed since the last epoch that strictly lowered the best loss; the
\* best loss never increases from one epoch to the next.
C29_PatienceInvariant ==
  /\ [](t_pc = "loop" =>
          /\ 0 <= patience_counter
          /\ patience_counter < Patience
          /\ patience_counter = epoch - last_improved)
  /\ [][best_loss' = best_loss \/ LessThan(best_loss', best_loss)]_vars

C29_Witness ==
  /\ t_pc = "loop" /\ last_improved > 1
  /\ patience_counter = Patience - 1

\* ------------------------------------------------- evaluator claims, frame
\* C23: neither CF evaluator assigns a cell of an array of its caller: the
\* held-out cells are zeroed in copies of the matrix, and the scores set
\* to -inf belong to the product of the factors or to the copy, so the
\* matrix argument and the factor arrays hold after the call what they held
\* before it.
C23_ArgumentsUnchanged ==
  /\ written \cap CallerArrays = {}
  /\ train_buf \notin CallerArrays
  /\ pred_buf \notin CallerArrays

C23_Witness ==
  /\ e_fn = "cf" /\ e_pc = "returned" /\ ~e_failed
  /\ cf_model.kind # "dict"
  /\ pred_buf = "train_matrix"
  /\ written = {"train_matrix"}

BusinessRanked ==
  /\ ~b_failed
  /\ \/ b_pc = "rank" /\ b_i > 1
     \/ b_fn = "company" /\ b_pc \in {"metrics", "returned"}
LastRanked == b_i - 1

\* C26: in both business evaluators the businesses recommended for business
\* i never include business i, for every similarity matrix and every k.
C26_NeverRecommendsSelf ==
  BusinessRanked => LastRanked \notin b_top

\* C27: evaluate_business_recommendations leaves the similarity matrix of
\* its caller as it was: after the call every entry, the diagonal included,
\* has the value it had before the call.
C27_SimilarityUnchanged ==
  (b_fn = "business" /\ b_pc = "returned") => similarity_matrix = sim_before

\* ------------------------------------------------- main() claims
\* C25: when load_data falls back to the dummy data, main() runs every
\* training stage and both evaluations to completion and returns
\* (hybrid_model, evaluation_results) without raising (here on a host
\* without accelerator, where no transfer can fail).
C25_DummyRunCompletes ==
  (data_source = "dummy" /\ ~p_cuda /\ p_pc \in {"returned", "raised"}) =>
    /\ p_pc = "returned"
    /\ p_exc = "none"
    /\ stages_done = MainStages
    /\ p_result.kind = "main"

====
